---- MODULE Spec2Model ----
(***************************************************************************)
(* EmailBot (src/email/emailbot_class.py): the retrying connection loop,   *)
(* the public mail operations with their session lifetime, the UID based   *)
(* search/fetch loop, the copy + flag + expunge folder move, the MIME      *)
(* decoding of a fetched message and the attachments of a sent one, run    *)
(* against an IMAP/SMTP server whose responses are the environment; and    *)
(* the chat histories of TelegramBot (src/telegram/telegrambot-class.py).  *)
(***************************************************************************)
EXTENDS Integers, Sequences, FiniteSets, TLC

(***************************************************************************)
(* Bounds of the model.                                                    *)
(***************************************************************************)
MaxRetries == 3        \* retries values given to _connect directly: 0..MaxRetries
MaxCalls == 1          \* public operations of any kind called one after the other
MaxFetches == 2        \* fetch_emails / move_email_to_folder calls made in a row
MaxPaths == 2          \* attachment paths given to send_email_with_attachment
MaxDepth == 2          \* nesting depth of the multipart messages decoded
MaxBytes == 3          \* length of the byte strings decoded
MaxHistory == 3        \* messages recorded in the chat histories
MaxLimit == 3          \* limit values given to get_chat_history: 0..MaxLimit
MaxTasks == 2          \* handler coroutines of the bot running concurrently
MaxAttached == 2       \* attachment parts of one message on the server
MaxBatch == 2          \* messages of one batch handed to _parse_email

(***************************************************************************)
(* Program constants.                                                      *)
(***************************************************************************)
DefaultRetries == 20   \* _connect_smtp / _connect_imap: retries=20

SmtpOps == {"send_email", "send_email_with_attachment", "reply_to_email"}
FetchOps == {"fetch_emails", "get_conversation_with_contact"}
ImapOps == FetchOps \cup {"list_folders", "move_email_to_folder"}
Ops == SmtpOps \cup ImapOps

(***************************************************************************)
(* The mailbox on the server.  A message is a record: id is the identity   *)
(* of its content (a copy keeps it), uid the identifier the folder gave    *)
(* to this instance, del its \Deleted flag.                                *)
(***************************************************************************)
ServerFolders == {"INBOX", "Archiv"}
UidArgs == {1, 2}

VARIABLES
    pc,         \* position of the client
    op,         \* the public operation being run ("_connect" for a direct call)
    calls,      \* public operations started so far
    proto,      \* protocol argument of _connect
    retries,    \* retries argument of _connect
    attempt,    \* loop variable of `for attempt in range(retries)`
    attempts,   \* connection attempts made by this _connect
    failures,   \* attempts of this _connect that raised
    sleeps,     \* time.sleep calls of this _connect
    lastEv,     \* last thing _connect did: "none", "attempt" or "sleep"
    conn,       \* the connection object of the running attempt
    plainLogin, \* login was sent on a connection that was not encrypted
    stale,      \* connections failed attempts of this _connect left open
    held,       \* the local name of _connect still refers to one of them
    sess,       \* what _connect returned: "unset", "None", "open", "closed"
    selected,   \* folder the IMAP session has selected, "none" in state AUTH
    issued,     \* commands issued on the session, with their responses
    closes,     \* quit/logout calls on the session
    raised,     \* the public operation ended by raising
    ret,        \* kind of value the operation returned
    args,       \* arguments of the public operation
    names,      \* folder names parsed from the LIST response
    ids,        \* identifiers the search returned
    idx,        \* position of the fetch loop in ids
    outcomes,   \* what happened to each identifier the loop reached
    results,    \* emails_with_details: uids of the records built
    searchOk,   \* the search of this call returned OK
    writes,     \* attachment files written by this call
    folders,    \* the mailbox: folder name -> set of messages
    uidnext,    \* next uid each folder assigns
    delim,      \* hierarchy delimiter the server prints in LIST lines
    pre,        \* the mailbox when the operation was called
    prev,       \* what the fetch_emails call before this operation returned
    batch,      \* the messages the fetch loop hands to _parse_email, in order
    pos,        \* position in batch of the message being parsed
    pin,        \* the input of _parse_email / _decode_payload
    fs,         \* the attachment directory
    rec,        \* the record _parse_email returned
    emails_with_details, \* the records the fetch loop has appended
    decoded,    \* what _decode_payload returned
    ppc,        \* position of the decoder
    chat_histories, \* TelegramBot.chat_histories
    hquery,     \* the last get_chat_history call and what it returned
    msgid,      \* message_id of the next Telegram message
    tpc,        \* "on" once a TelegramBot is constructed
    tasks,      \* the handler coroutines of the bot and where each one stands
    saves       \* the calls of save_message_to_history, in the order they ran

connVars == <<proto, retries, attempt, attempts, failures, sleeps,
              lastEv, conn, plainLogin, stale, held, sess>>
callVars == <<op, calls, args, pre, prev>>
sessVars == <<selected, issued, closes, raised, ret>>
fetchVars == <<ids, idx, outcomes, results, searchOk, writes>>
boxVars == <<folders, uidnext, delim>>
mailVars == <<pc, connVars, callVars, sessVars, fetchVars, names, boxVars>>
mimeVars == <<batch, pos, pin, fs, rec, emails_with_details, decoded, ppc>>
tgVars == <<chat_histories, hquery, msgid, tpc, tasks, saves>>
sideVars == <<mimeVars, tgVars>>
vars == <<mailVars, sideVars>>

NoConn == [open |-> FALSE, tls |-> FALSE]
NoArgs == [uid |-> 0, target |-> "", folder |-> "", criteria |-> "", save |-> FALSE,
           paths |-> <<>>]

\* the attachment paths a caller passes, and the files that exist on disk
Paths == {"docs/a.txt", "b.txt", "gone.txt"}
FilesOnDisk == {"docs/a.txt", "b.txt"}
PathLists == UNION {[1..n -> Paths] : n \in 0..MaxPaths}

(***************************************************************************)
(* _connect: lines 61-92.                                                  *)
(***************************************************************************)
\* `for attempt in range(retries)`: the loop body runs while attempt < retries
LoopContinuesShort(a, r) == a + 1 < r    \* faulty variant: one pass too few
LoopContinues(a, r) == a < r

\* `if attempt < retries - 1` of the except block: sleep before the next attempt
ShouldSleepAlways(a, r) == a < r    \* faulty variant: sleeps after the last failure too
ShouldSleep(a, r) == a + 1 < r

\* smtplib.SMTP is a plaintext connection, imaplib.IMAP4_SSL an implicit-TLS one
OpensEncryptedNever(p) == FALSE    \* faulty variant: plain IMAP4
OpensEncrypted(p) == p = "imap"

\* what follows the constructor: server.starttls() for SMTP, mail.login for IMAP
AfterOpenNoTls(p) == "login"    \* faulty variant: no starttls()
AfterOpen(p) == IF p = "smtp" THEN "starttls" ELSE "login"

\* how many of n open connections that no name refers to any more are
\* still open a step later.  An object that only a reference count keeps is
\* finalised, and its socket closed, at once; one that is part of a
\* reference cycle (smtplib keeps the exception of a rejected login, whose
\* traceback refers back to the object) stays open until the cyclic
\* collector runs, which it can do during any step
Reclaimed(n) == 0..n

\* the connections of failed attempts still open after a step that leaves
\* the local name of _connect bound as it is: the one the name refers to
\* stays open, the others are subject to the collector
StillOpen == {(IF held THEN 1 ELSE 0) + r : r \in Reclaimed(stale - (IF held THEN 1 ELSE 0))}

\* whether the connection is still open when starttls() or login() has
\* raised.  smtplib closes the socket itself when the server dropped the
\* connection (getreply calls self.close()) and ssl closes it when the TLS
\* handshake failed; after an error reply (454, 535) it stays open.
\* imaplib closes nothing when login() raises
StaysOpen(p) == IF p = "smtp" THEN BOOLEAN ELSE {TRUE}

\* the except block of _connect: log, then sleep unless this was the last
\* attempt; the connection the attempt opened is not closed, and the local
\* name keeps referring to it
ConnectError(opened) ==
    /\ failures' = failures + 1
    /\ \E n \in StillOpen : stale' = IF opened THEN n + 1 ELSE n
    /\ held' = (held \/ opened)
    /\ IF ShouldSleep(attempt, retries)
          THEN pc' = "sleep" /\ attempt' = attempt
          ELSE pc' = "attempt" /\ attempt' = attempt + 1

\* smtplib.SMTP(host, port) / imaplib.IMAP4_SSL(host, port)
ConnectOpen ==
    /\ pc = "attempt"
    /\ LoopContinues(attempt, retries)
    /\ attempts' = attempts + 1
    /\ lastEv' = "attempt"
    /\ \E ok \in BOOLEAN :
          IF ok
             THEN /\ conn' = [open |-> TRUE, tls |-> OpensEncrypted(proto)]
                  /\ pc' = AfterOpen(proto)
                  /\ stale' \in Reclaimed(stale)
                  /\ held' = FALSE
                  /\ UNCHANGED <<attempt, failures>>
             ELSE /\ conn' = NoConn
                  /\ ConnectError(FALSE)
    /\ UNCHANGED <<proto, retries, sleeps, plainLogin, sess>>
    /\ UNCHANGED <<callVars, sessVars, fetchVars, names, boxVars>>
    /\ UNCHANGED sideVars

\* server.starttls(): upgrades the connection or raises
StartTls ==
    /\ pc = "starttls"
    /\ \E ok \in BOOLEAN :
          IF ok
             THEN /\ conn' = [conn EXCEPT !.tls = TRUE]
                  /\ pc' = "login"
                  /\ stale' \in StillOpen
                  /\ UNCHANGED <<attempt, failures, held>>
             ELSE /\ conn' = conn
                  /\ \E left \in StaysOpen(proto) : ConnectError(conn.open /\ left)
    /\ UNCHANGED <<proto, retries, attempts, sleeps, lastEv, plainLogin, sess>>
    /\ UNCHANGED <<callVars, sessVars, fetchVars, names, boxVars>>
    /\ UNCHANGED sideVars

\* server.login(...) / mail.login(...): on success _connect returns the connection
Login ==
    /\ pc = "login"
    /\ plainLogin' = (plainLogin \/ ~conn.tls)
    /\ \E ok \in BOOLEAN :
          IF ok
             THEN /\ sess' = "open"
                  /\ pc' = "acquired"
                  /\ stale' \in StillOpen
                  /\ UNCHANGED <<attempt, failures, held>>
             ELSE /\ sess' = sess
                  /\ \E left \in StaysOpen(proto) : ConnectError(conn.open /\ left)
    /\ UNCHANGED <<proto, retries, attempts, sleeps, lastEv, conn>>
    /\ UNCHANGED <<callVars, sessVars, fetchVars, names, boxVars>>
    /\ UNCHANGED sideVars

\* time.sleep(delay), whose duration plays no part in the control flow,
\* then the next iteration of the loop
Sleep ==
    /\ pc = "sleep"
    /\ sleeps' = sleeps + 1
    /\ lastEv' = "sleep"
    /\ attempt' = attempt + 1
    /\ pc' = "attempt"
    /\ stale' \in StillOpen
    /\ UNCHANGED <<proto, retries, attempts, failures, conn, plainLogin, held, sess>>
    /\ UNCHANGED <<callVars, sessVars, fetchVars, names, boxVars>>
    /\ UNCHANGED sideVars

\* the loop is over: `return None`
ConnectGiveUp ==
    /\ pc = "attempt"
    /\ ~LoopContinues(attempt, retries)
    /\ sess' = "None"
    /\ pc' = "acquired"
    /\ stale' \in Reclaimed(stale)
    /\ held' = FALSE
    /\ UNCHANGED <<proto, retries, attempt, attempts, failures, sleeps,
                   lastEv, conn, plainLogin>>
    /\ UNCHANGED <<callVars, sessVars, fetchVars, names, boxVars>>
    /\ UNCHANGED sideVars


(***************************************************************************)
(* The server side of the IMAP commands the client issues.                 *)
(***************************************************************************)
Resps == {"OK", "NO", "raise"}

\* IMAP treats the mailbox name INBOX case-insensitively
Mailbox(f) == IF f = "inbox" THEN "INBOX" ELSE f

\* SELECT answers OK only for a folder the server has
SelectResps(f) == IF Mailbox(f) \in ServerFolders THEN Resps ELSE {"NO", "raise"}

\* the commands the client sends through mail.uid(...), which address
\* messages by UID (lines 169, 174, 326, 328); the others carry no identifier
ByUidSearchCopyOnly(c) == c \in {"SEARCH", "COPY"}    \* faulty variant: FETCH and STORE by sequence number
ByUid(c) == c \in {"SEARCH", "FETCH", "COPY", "STORE"}

\* an entry of the command log; data is what a SEND hands over
NoData == [parts |-> <<>>, warned |-> <<>>]
Cmd(c, u, b, r) ==
    [cmd |-> c, uid |-> u, box |-> b, resp |-> r, byUid |-> ByUid(c), data |-> NoData]

\* the line LIST prints for a folder, and the line of a NO response
ListOrder == <<"INBOX", "Archiv">>
ServerLine(f, d) ==
    [delim |-> d, name |-> f, text |-> "(\\HasNoChildren) \"" \o d \o "\" " \o f]
ErrorLine == [delim |-> "", name |-> "", text |-> "LIST failed"]
ListData(r, d) ==
    IF r = "OK" THEN [i \in 1..Len(ListOrder) |-> ServerLine(ListOrder[i], d)]
                ELSE <<ErrorLine>>

\* UID COPY: the message with that uid (if any) gets a copy in the target,
\* with a fresh uid there and its flags preserved
ServerCopy(box, nxt, src, u, tgt) ==
    [box EXCEPT ![tgt] = @ \cup {[id |-> m.id, uid |-> nxt[tgt], del |-> m.del,
                                  seen |-> m.seen] :
                                    m \in {x \in box[src] : x.uid = u}}]
ServerCopyNext(box, nxt, src, u, tgt) ==
    IF \E x \in box[src] : x.uid = u THEN [nxt EXCEPT ![tgt] = @ + 1] ELSE nxt

\* UID STORE +FLAGS (\Deleted)
ServerStore(box, src, u) ==
    [box EXCEPT ![src] = {IF m.uid = u THEN [m EXCEPT !.del = TRUE] ELSE m : m \in @}]

\* EXPUNGE: every message of the selected folder flagged \Deleted is removed
ServerExpunge(box, src) ==
    [box EXCEPT ![src] = {m \in @ : ~m.del}]

\* ascending sequence of a set of uids (SEARCH answers in ascending order)
RECURSIVE Ascending(_)
Ascending(S) ==
    IF S = {} THEN <<>>
    ELSE LET lo == CHOOSE x \in S : \A y \in S : x <= y
         IN <<lo>> \o Ascending(S \ {lo})

(***************************************************************************)
(* The public operations: lines 94-109, 138-153, 266-277, 298-309,         *)
(* 336-357, 359-372, 374-389.                                              *)
(***************************************************************************)
\* the protocol each operation connects with
ProtoOf(o) == IF o \in SmtpOps THEN "smtp" ELSE "imap"

\* `if not server: return` / `if not mail: return []`
SessionAcquiredAny(s) == TRUE    \* faulty variant: the test is missing
SessionAcquired(s) == s = "open"

\* the value returned when no session was acquired
FailureValue(o) == IF o \in FetchOps \cup {"list_folders"} THEN "list" ELSE "None"

\* the first step of each operation's helper
BodyStart(o) ==
    CASE o = "send_email" -> "send"
      [] o = "send_email_with_attachment" -> "send_att"
      [] o = "reply_to_email" -> "reply"
      [] o \in FetchOps -> "f_select"
      [] o = "list_folders" -> "list"
      [] o = "move_email_to_folder" -> "m_list"

\* where control goes when a helper's step raises: every helper catches
\* Exception (reply_to_email has a finally), so the operation goes on to close
HandlerTarget(o) == "close"

\* the arguments an operation can be called with
\* the search criteria: those the docstring of fetch_emails names, and the
\* one get_conversation_with_contact builds for its contact
Criteria == {"ALL", "UNSEEN"}
ContactCriteria == "OR FROM TO"

ArgsOf(o) ==
    CASE o = "move_email_to_folder" ->
            {[NoArgs EXCEPT !.uid = u, !.target = t] :
                u \in UidArgs, t \in {"INBOX", "Archiv", "Missing"}}
      [] o = "fetch_emails" ->
            {[NoArgs EXCEPT !.folder = f, !.criteria = c, !.save = s] :
                f \in {"inbox", "Archiv", "Missing"}, c \in Criteria, s \in BOOLEAN}
      [] o = "get_conversation_with_contact" ->
            {[NoArgs EXCEPT !.folder = f, !.criteria = ContactCriteria] :
                f \in {"inbox", "Archiv", "Missing"}}
      [] o = "send_email_with_attachment" ->
            {[NoArgs EXCEPT !.paths = ps] : ps \in PathLists}
      [] OTHER -> {NoArgs}

\* every command of the running fetch answered OK, with its data
FetchClean ==
    /\ \A i \in 1..Len(issued) : issued[i].resp = "OK"
    /\ \A i \in 1..Len(outcomes) : outcomes[i] = "ok"

\* what the caller holds when a fetch_emails in which nothing failed has
\* returned: the folder and the criteria it asked for and the records it
\* got, by their uid
NoPrev == [folder |-> "", criteria |-> "", results |-> <<>>]
FetchSummary ==
    IF op = "fetch_emails" /\ pc = "returned" /\ args # NoArgs /\ FetchClean
       THEN [folder |-> args.folder, criteria |-> args.criteria, results |-> results]
       ELSE NoPrev

\* public operation o is called: it starts with _connect_smtp() /
\* _connect_imap()
Calling(o) ==
    /\ pc \in {"idle", "returned", "raised"}
    /\ calls' = calls + 1
    /\ op' = o
    /\ proto' = ProtoOf(o)
    /\ retries' = DefaultRetries
    /\ attempt' = 0 /\ attempts' = 0 /\ failures' = 0 /\ sleeps' = 0
    /\ lastEv' = "none" /\ conn' = NoConn /\ plainLogin' = FALSE /\ stale' = 0
    /\ held' = FALSE
    /\ sess' = "unset"
    /\ selected' = "none" /\ issued' = <<>> /\ closes' = 0
    /\ raised' = FALSE /\ ret' = "unset"
    /\ args' = NoArgs /\ names' = <<>>
    /\ ids' = <<>> /\ idx' = 1 /\ outcomes' = <<>> /\ results' = <<>>
    /\ searchOk' = FALSE /\ writes' = 0
    /\ pre' = folders
    /\ prev' = FetchSummary
    /\ pc' = "attempt"
    /\ UNCHANGED boxVars
    /\ UNCHANGED sideVars

\* a caller that calls any of the public operations
Call == calls < MaxCalls /\ \E o \in Ops : Calling(o)

\* a caller that fetches and files what it fetched, as main.py does
CallFetch == calls < MaxFetches /\ Calling("fetch_emails")

CallMove == calls < MaxFetches /\ Calling("move_email_to_folder")

\* the test of what _connect returned, and the call of the helper; the
\* locals and counters of the finished _connect are gone
CheckSession ==
    /\ pc = "acquired"
    /\ op \in Ops
    /\ IF SessionAcquired(sess)
          THEN /\ pc' = BodyStart(op)
               /\ \E a \in ArgsOf(op) : args' = a
               /\ ret' = ret
          ELSE /\ pc' = "returned"
               /\ ret' = FailureValue(op)
               /\ args' = args
    /\ attempt' = 0 /\ attempts' = 0 /\ failures' = 0 /\ sleeps' = 0
    /\ lastEv' = "none" /\ conn' = NoConn /\ stale' = 0 /\ held' = FALSE
    /\ UNCHANGED <<proto, retries, plainLogin, sess>>
    /\ UNCHANGED <<op, calls, pre, prev, selected, issued, closes, raised>>
    /\ UNCHANGED <<fetchVars, names, boxVars>>
    /\ UNCHANGED sideVars

\* a step of a helper raised
Raise ==
    /\ pc' = HandlerTarget(op)
    /\ raised' = (HandlerTarget(op) = "raised")

\* what quit() / logout() leave of the session: smtplib closes the socket
\* when quit() raises, imaplib calls shutdown() only after a LOGOUT command
\* that did not raise
AfterClose(p, r) == IF p = "imap" /\ r = "raise" THEN "open" ELSE "closed"

\* server.quit() / mail.logout(), then the return of the operation
Close ==
    /\ pc = "close"
    /\ closes' = closes + 1
    /\ selected' = "none"
    /\ \E r \in {"OK", "raise"} :
          /\ sess' = AfterClose(proto, r)
          /\ issued' = Append(issued, Cmd(IF proto = "smtp" THEN "QUIT" ELSE "LOGOUT",
                                          0, "", r))
          /\ IF r = "OK"
                THEN /\ pc' = "returned"
                     /\ ret' = IF op \in FetchOps \cup {"list_folders"} THEN "list" ELSE "None"
                     /\ raised' = raised
                ELSE /\ pc' = "raised"
                     /\ ret' = ret
                     /\ raised' = TRUE
    /\ UNCHANGED <<proto, retries, attempt, attempts, failures, sleeps,
                   lastEv, conn, plainLogin, stale, held>>
    /\ UNCHANGED <<callVars, fetchVars, names, boxVars>>
    /\ UNCHANGED sideVars

(***************************************************************************)
(* The SMTP helpers: _send_message (111-136),                              *)
(* _send_message_with_attachments (391-418), the body of reply_to_email    *)
(* (346-357).  Building the message can raise before anything is sent.     *)
(***************************************************************************)
smtpFrame ==
    /\ UNCHANGED <<connVars, callVars, selected, closes, ret>>
    /\ UNCHANGED <<fetchVars, names, boxVars>>

SmtpSend(at) ==
    /\ pc = at
    /\ \E r \in {"OK", "raise", "nobuild"} :
          CASE r = "nobuild" -> issued' = issued /\ Raise
            [] r = "raise" -> issued' = Append(issued, Cmd("SEND", 0, "", r)) /\ Raise
            [] r = "OK" -> /\ issued' = Append(issued, Cmd("SEND", 0, "", r))
                           /\ pc' = "close"
                           /\ raised' = raised
    /\ smtpFrame
    /\ UNCHANGED sideVars

\* _send_message: build an EmailMessage and server.send_message(msg)
SendMessage == SmtpSend("send")

\* reply_to_email: build the reply and server.send_message(reply)
ReplyToEmail == SmtpSend("reply")

(***************************************************************************)
(* list_folders -> _get_folders: lines 279-296.                            *)
(***************************************************************************)
\* folder.decode().split(' "/" ')[-1]: the text after the last ' "/" ',
\* the whole line when the line does not contain it
ParseFolderLine(l) == IF l.delim = "/" THEN l.name ELSE l.text

ParseFolderLines(data) == [i \in 1..Len(data) |-> ParseFolderLine(data[i])]

imapFrame ==
    /\ UNCHANGED <<connVars, callVars, closes, ret>>

GetFolders ==
    /\ pc = "list"
    /\ \E r \in Resps :
          /\ issued' = Append(issued, Cmd("LIST", 0, "", r))
          /\ CASE r = "OK" -> /\ names' = ParseFolderLines(ListData(r, delim))
                              /\ pc' = "close" /\ raised' = raised
               [] r = "NO" -> names' = <<>> /\ pc' = "close" /\ raised' = raised
               [] r = "raise" -> names' = <<>> /\ Raise
    /\ imapFrame
    /\ UNCHANGED <<selected, fetchVars, boxVars>>
    /\ UNCHANGED sideVars

(***************************************************************************)
(* move_email_to_folder -> _move_email: lines 311-334.                     *)
(***************************************************************************)
SeqToSet(q) == {q[i] : i \in 1..Len(q)}

\* `if target_folder not in folder_names: ... return`
TargetExists(t, ns) == t \in SeqToSet(ns)

\* `if result[0] == 'OK'` after the COPY
CopyOkAny(r) == r \in {"OK", "NO"}    \* faulty variant: the result is not looked at
CopyOk(r) == r = "OK"

\* the folder _move_email selects: mail.select('inbox')
SourceFolder == "inbox"

\* mail.list(), the parse of its data and the test of the target
MoveList ==
    /\ pc = "m_list"
    /\ \E r \in Resps :
          /\ issued' = Append(issued, Cmd("LIST", 0, "", r))
          /\ IF r = "raise"
                THEN names' = <<>> /\ Raise
                ELSE /\ names' = ParseFolderLines(ListData(r, delim))
                     /\ raised' = raised
                     /\ pc' = IF TargetExists(args.target, names') THEN "m_select" ELSE "close"
    /\ imapFrame
    /\ UNCHANGED <<selected, fetchVars, boxVars>>
    /\ UNCHANGED sideVars

\* mail.select('inbox'); its result is not looked at
MoveSelect ==
    /\ pc = "m_select"
    /\ \E r \in SelectResps(SourceFolder) :
          /\ issued' = Append(issued, Cmd("SELECT", 0, Mailbox(SourceFolder), r))
          /\ CASE r = "OK" -> selected' = Mailbox(SourceFolder) /\ pc' = "m_copy" /\ raised' = raised
               [] r = "NO" -> selected' = "none" /\ pc' = "m_copy" /\ raised' = raised
               [] r = "raise" -> selected' = "none" /\ Raise
    /\ imapFrame
    /\ UNCHANGED <<names, fetchVars, boxVars>>
    /\ UNCHANGED sideVars

\* a command of the selected state on a session that has nothing selected:
\* imaplib raises without sending anything
IllegalState ==
    /\ selected = "none"
    /\ issued' = issued
    /\ Raise

\* mail.uid('COPY', uid, target_folder)
MoveCopy ==
    /\ pc = "m_copy"
    /\ \/ IllegalState /\ UNCHANGED <<folders, uidnext>>
       \/ /\ selected # "none"
          /\ \E r \in (IF args.target \in ServerFolders THEN Resps ELSE {"NO", "raise"}) :
                /\ issued' = Append(issued, Cmd("COPY", args.uid, args.target, r))
                /\ \E done \in (IF r = "OK" THEN {TRUE}
                                ELSE IF r = "NO" \/ args.target \notin ServerFolders
                                        THEN {FALSE} ELSE BOOLEAN) :
                      IF done
                         THEN /\ folders' = ServerCopy(folders, uidnext, selected, args.uid, args.target)
                              /\ uidnext' = ServerCopyNext(folders, uidnext, selected, args.uid, args.target)
                         ELSE UNCHANGED <<folders, uidnext>>
                /\ IF r = "raise"
                      THEN Raise
                      ELSE /\ raised' = raised
                           /\ pc' = IF CopyOk(r) THEN "m_store" ELSE "close"
    /\ imapFrame
    /\ UNCHANGED <<selected, names, fetchVars, delim>>
    /\ UNCHANGED sideVars

\* mail.uid('STORE', uid, '+FLAGS', '(\Deleted)'); its result is not looked at
MoveStore ==
    /\ pc = "m_store"
    /\ \/ /\ selected # "none"
          /\ \E r \in Resps :
                /\ issued' = Append(issued, Cmd("STORE", args.uid, selected, r))
                /\ \E done \in (IF r = "OK" THEN {TRUE} ELSE IF r = "NO" THEN {FALSE} ELSE BOOLEAN) :
                      folders' = IF done THEN ServerStore(folders, selected, args.uid) ELSE folders
                /\ IF r = "raise"
                      THEN Raise
                      ELSE raised' = raised /\ pc' = "m_expunge"
    /\ imapFrame
    /\ UNCHANGED <<selected, names, fetchVars, uidnext, delim>>
    /\ UNCHANGED sideVars

\* mail.expunge(), then the success log line
MoveExpunge ==
    /\ pc = "m_expunge"
    /\ \/ /\ selected # "none"
          /\ \E r \in Resps :
                /\ issued' = Append(issued, Cmd("EXPUNGE", 0, selected, r))
                /\ \E done \in (IF r = "OK" THEN {TRUE} ELSE IF r = "NO" THEN {FALSE} ELSE BOOLEAN) :
                      folders' = IF done THEN ServerExpunge(folders, selected) ELSE folders
                /\ IF r = "raise"
                      THEN Raise
                      ELSE raised' = raised /\ pc' = "close"
    /\ imapFrame
    /\ UNCHANGED <<selected, names, fetchVars, uidnext, delim>>
    /\ UNCHANGED sideVars

(***************************************************************************)
(* fetch_emails / get_conversation_with_contact ->                         *)
(* _search_and_fetch_emails: lines 155-184, with _parse_email (186-208)    *)
(* as one step of the loop.                                                *)
(***************************************************************************)
\* mail.select(folder); its result is not looked at
FetchSelect ==
    /\ pc = "f_select"
    /\ \E r \in SelectResps(args.folder) :
          /\ issued' = Append(issued, Cmd("SELECT", 0, Mailbox(args.folder), r))
          /\ CASE r = "OK" -> selected' = Mailbox(args.folder) /\ pc' = "f_search" /\ raised' = raised
               [] r = "NO" -> selected' = "none" /\ pc' = "f_search" /\ raised' = raised
               [] r = "raise" -> selected' = "none" /\ Raise
    /\ imapFrame
    /\ UNCHANGED <<names, fetchVars, boxVars>>
    /\ UNCHANGED sideVars

\* the messages a search criterion selects; the mail of the contact is the
\* mail with these contents
ContactMail == {1, 3}
Matches(m, crit) ==
    CASE crit = "ALL" -> TRUE
      [] crit = "UNSEEN" -> ~m.seen
      [] OTHER -> m.id \in ContactMail

\* the answer of UID SEARCH: the uids of the matching messages, ascending
SearchAnswer(box, f, crit) == Ascending({m.uid : m \in {x \in box[f] : Matches(x, crit)}})

\* UID FETCH (RFC822) of a message sets its \Seen flag: RFC822 is BODY[],
\* not BODY.PEEK[], and the folder is selected read-write
ServerFetch(box, f, u) ==
    [box EXCEPT ![f] = {IF m.uid = u THEN [m EXCEPT !.seen = TRUE] ELSE m : m \in @}]

\* mail.uid('search', None, search_criteria) and `if result != "OK": return []`
FetchSearch ==
    /\ pc = "f_search"
    /\ \/ IllegalState /\ UNCHANGED <<ids, searchOk>>
       \/ /\ selected # "none"
          /\ \E r \in Resps :
                /\ issued' = Append(issued, Cmd("SEARCH", 0, selected, r))
                /\ CASE r = "OK" -> /\ ids' = SearchAnswer(folders, selected, args.criteria)
                                    /\ searchOk' = TRUE
                                    /\ pc' = "f_loop" /\ raised' = raised
                     [] r = "NO" -> /\ UNCHANGED <<ids, searchOk>>
                                    /\ pc' = "close" /\ raised' = raised
                     [] r = "raise" -> UNCHANGED <<ids, searchOk>> /\ Raise
    /\ imapFrame
    /\ UNCHANGED <<selected, names, idx, outcomes, results, writes, boxVars>>
    /\ UNCHANGED sideVars

\* what one pass of the loop body can meet: the FETCH answers OK with the
\* message ("ok"), OK without message data ("nodata"), NO, or raises; with
\* the message in hand _parse_email can raise while saving an attachment
FetchOutcomes(save) ==
    {"ok", "nodata", "NO", "raise"} \cup (IF save THEN {"parsefail"} ELSE {})

\* the response recorded for an outcome
FetchResp(o) == IF o \in {"NO", "raise"} THEN o ELSE "OK"

\* whether the loop goes on to the next identifier after an outcome:
\* a non-OK result is skipped with `continue`, a record is appended, and
\* anything raised leaves the loop for the except block of the helper
LoopGoesOn(o) == o \in {"ok", "NO"}

\* the files one pass can write: _save_attachments is called for every
\* attachment part of the message and writes one file for each that has a
\* filename; a pass that raises while saving has written those before
FilesWritten(save, o) ==
    IF save /\ o \in {"ok", "parsefail"} THEN 0..MaxAttached ELSE {0}

\* one pass of `for uid in data[0].split()`
FetchOne ==
    /\ pc = "f_loop"
    /\ idx <= Len(ids)
    /\ \E o \in FetchOutcomes(args.save) :
          /\ issued' = Append(issued, Cmd("FETCH", ids[idx], selected, FetchResp(o)))
          /\ outcomes' = Append(outcomes, o)
          /\ results' = IF o = "ok" THEN Append(results, ids[idx]) ELSE results
          /\ \E got \in (IF o \in {"ok", "parsefail"} THEN {TRUE}
                         ELSE IF o = "raise" THEN BOOLEAN ELSE {FALSE}) :
                folders' = IF got THEN ServerFetch(folders, selected, ids[idx]) ELSE folders
          /\ \E w \in FilesWritten(args.save, o) : writes' = writes + w
          /\ IF LoopGoesOn(o)
                THEN idx' = idx + 1 /\ pc' = "f_loop" /\ raised' = raised
                ELSE idx' = idx /\ Raise
    /\ imapFrame
    /\ UNCHANGED <<selected, names, ids, searchOk, uidnext, delim>>
    /\ UNCHANGED sideVars

\* the loop is over: the log line and `return emails_with_details`
FetchDone ==
    /\ pc = "f_loop"
    /\ idx > Len(ids)
    /\ pc' = "close"
    /\ imapFrame
    /\ UNCHANGED <<selected, issued, raised, names, fetchVars, boxVars>>
    /\ UNCHANGED sideVars

(***************************************************************************)
(* MIME messages as _parse_email sees them after                           *)
(* email.message_from_bytes: a tree of parts.  A part is a record; a       *)
(* container (is_multipart()) has kids and no body of its own, a leaf has  *)
(* the bytes get_payload(decode=True) returns for it.  Text is a sequence  *)
(* of code points, bytes are numbers 0..255.                               *)
(***************************************************************************)
\* Python's None, for a header or parameter the message does not carry
None == "<None>"

Leaf(ct, d, fn, cs, b) ==
    [multi |-> FALSE, ctype |-> ct, disp |-> d, fname |-> fn,
     charset |-> cs, body |-> b, kids |-> <<>>]
Multipart(ks) ==
    [multi |-> TRUE, ctype |-> "multipart/mixed", disp |-> None, fname |-> None,
     charset |-> None, body |-> <<>>, kids |-> ks]

(***************************************************************************)
(* The codecs bytes.decode is called with.                                 *)
(***************************************************************************)
Decoded(t) == [ok |-> TRUE, text |-> t]
DecodeError == [ok |-> FALSE, text |-> <<>>]

\* a continuation byte 10xxxxxx
Cont(b, i) == i <= Len(b) /\ b[i] >= 128 /\ b[i] <= 191

\* the first character of a UTF-8 byte string: its code point and length,
\* length 0 when the bytes do not start with a well-formed character
Utf8First(b) ==
    CASE b[1] < 128 -> [cp |-> b[1], n |-> 1]
      [] b[1] >= 194 /\ b[1] <= 223 /\ Cont(b, 2) ->
            [cp |-> (b[1] - 192) * 64 + (b[2] - 128), n |-> 2]
      [] b[1] >= 224 /\ b[1] <= 239 /\ Cont(b, 2) /\ Cont(b, 3)
            /\ (b[1] = 224 => b[2] >= 160) /\ (b[1] = 237 => b[2] <= 159) ->
            [cp |-> (b[1] - 224) * 4096 + (b[2] - 128) * 64 + (b[3] - 128), n |-> 3]
      [] b[1] >= 240 /\ b[1] <= 244 /\ Cont(b, 2) /\ Cont(b, 3) /\ Cont(b, 4)
            /\ (b[1] = 240 => b[2] >= 144) /\ (b[1] = 244 => b[2] <= 143) ->
            [cp |-> (b[1] - 240) * 262144 + (b[2] - 128) * 4096
                    + (b[3] - 128) * 64 + (b[4] - 128), n |-> 4]
      [] OTHER -> [cp |-> 0, n |-> 0]

\* bytes.decode('utf-8'): the text, or UnicodeDecodeError
RECURSIVE Utf8Decode(_)
Utf8Decode(b) ==
    IF b = <<>> THEN Decoded(<<>>)
    ELSE LET c == Utf8First(b)
             rest == Utf8Decode(SubSeq(b, c.n + 1, Len(b)))
         IN IF c.n = 0 \/ ~rest.ok THEN DecodeError
            ELSE Decoded(<<c.cp>> \o rest.text)

\* bytes.decode('latin-1'): every byte is the code point of the same number
Latin1Decode(b) == Decoded([i \in 1..Len(b) |-> b[i]])

\* bytes.decode(name, errors): 'latin-1' and 'ISO-8859-1' name one codec,
\* which has no undecodable byte, so errors='replace' replaces nothing
Codec(name, b) ==
    CASE name = "utf-8" -> Utf8Decode(b)
      [] name \in {"latin-1", "ISO-8859-1"} -> Latin1Decode(b)

\* _decode_payload: the codecs of the try / except UnicodeDecodeError chain
DecodeChainUtf8Only == <<"utf-8">>    \* faulty variant: no fallback
DecodeChain == <<"utf-8", "latin-1", "ISO-8859-1">>

\* the chain from position i on: the first codec that decodes the bytes
\* gives the text; an error of the last one is not caught
RECURSIVE TryFrom(_, _, _)
TryFrom(chain, i, b) ==
    IF i > Len(chain) THEN [kind |-> "raise", text |-> <<>>]
    ELSE IF Codec(chain[i], b).ok THEN [kind |-> "text", text |-> Codec(chain[i], b).text]
    ELSE TryFrom(chain, i + 1, b)

\* _decode_payload(part); the charset the part declares is not looked at
DecodePayload(part) == TryFrom(DecodeChain, 1, part.body)

(***************************************************************************)
(* _parse_email and its helpers: lines 186-264.                            *)
(***************************************************************************)
\* the attachment directory: whether it exists, and the files in it
NoFiles == [dir |-> FALSE, files |-> {}]

\* msg.walk(): the part itself, then the walk of each sub-part in order
RECURSIVE Walk(_)
RECURSIVE WalkAll(_, _)
Walk(p) == <<p>> \o (IF p.multi THEN WalkAll(p.kids, 1) ELSE <<>>)
WalkAll(ks, i) == IF i > Len(ks) THEN <<>> ELSE Walk(ks[i]) \o WalkAll(ks, i + 1)

\* line 225: the parts whose payload is added to the text
IsBodyTextPlainOnly(part) == part.disp = None /\ part.ctype = "text/plain"    \* faulty variant
IsBodyText(part) == part.disp = None /\ part.ctype \in {"text/plain", "text/html"}

\* line 229: the parts handed to _save_attachments
IsAttachment(save, part) == save /\ part.disp = "attachment"

\* `if filename:` is false for None and for the empty string
HasFilename(part) == part.fname # None /\ part.fname # ""

\* open(path, "wb") and f.write(...): the file of that name is replaced
WriteFileOnce(files, name, b) ==    \* faulty variant: an existing file is kept
    IF \E f \in files : f.name = name THEN files ELSE files \cup {[name |-> name, body |-> b]}
WriteFile(files, name, b) == {f \in files : f.name # name} \cup {[name |-> name, body |-> b]}

\* lines 260-263 are in no try block: a failing makedirs, open or write
\* raises out of _save_attachments and _parse_email
WriteRaises(w) == w # "ok"

\* what the saving of one message can meet: nothing fails, or the at-th file
\* that is to be written is the one where os.makedirs raises, open() raises,
\* or open() succeeds and the write raises after `kept` bytes got into the
\* file.  Everything before it went well and nothing after it is reached
NoFault == [at |-> 0, how |-> "ok", kept |-> 0]

\* what the n-th file to be written meets under fault w
Met(w, n) == IF w.at = n THEN w.how ELSE "ok"

\* the bytes in the file when the write raised after k bytes
Written(b, k) == SubSeq(b, 1, k)

\* _save_attachments(part, email_info, attachment_dir) on the state st of one
\* extraction, under fault w.  open(path, "wb") creates the file or
\* truncates the one of that name before anything is written
SaveAttachment(part, st, w) ==
    IF ~HasFilename(part) THEN st
    ELSE LET how == Met(w, st.n + 1)
         IN [st EXCEPT
                !.n = @ + 1,
                !.attachments = Append(@, part.fname),
                !.fs = CASE how = "makedirs_fails" -> @
                         [] how = "open_fails" -> [@ EXCEPT !.dir = TRUE]
                         [] how = "write_fails" ->
                               [dir |-> TRUE,
                                files |-> WriteFile(@.files, part.fname,
                                                    Written(part.body, w.kept))]
                         [] OTHER ->
                               [dir |-> TRUE,
                                files |-> WriteFile(@.files, part.fname, part.body)],
                !.raised = WriteRaises(how)]

\* the loop `for part in msg.walk()` from position i on; an exception ends it
RECURSIVE ExtractFrom(_, _, _, _, _)
ExtractFrom(parts, i, st, save, w) ==
    IF i > Len(parts) \/ st.raised THEN st
    ELSE LET part == parts[i]
             st1 == IF IsBodyText(part)
                       THEN [st EXCEPT !.text = @ \o DecodePayload(part).text]
                       ELSE st
             st2 == IF IsAttachment(save, part) THEN SaveAttachment(part, st1, w) ELSE st1
         IN ExtractFrom(parts, i + 1, st2, save, w)

\* _extract_email_text_and_attachments: the walk for a multipart message,
\* the decoded payload as the text for any other message
ExtractTextAndAttachments(msg, st, save, w) ==
    IF msg.multi THEN ExtractFrom(Walk(msg), 1, st, save, w)
    ELSE [st EXCEPT !.text = DecodePayload(msg).text]

\* _parse_email(raw_email, uid, save_attachments, attachment_dir): the record
\* with the headers as msg[...] gives them, then the extraction
EmailInfo(inp) ==
    [uid |-> inp.uid, subject |-> inp.subject, from |-> inp.from,
     to |-> inp.to, date |-> inp.date, text |-> <<>>, attachments |-> <<>>]

ParseEmailResult(inp, store, w) ==
    LET st0 == [text |-> <<>>, attachments |-> <<>>, fs |-> store, raised |-> FALSE,
                n |-> 0]
        st == ExtractTextAndAttachments(inp.msg, st0, inp.save, w)
    IN [rec |-> [EmailInfo(inp) EXCEPT !.text = st.text, !.attachments = st.attachments],
        fs |-> st.fs, raised |-> st.raised]

(***************************************************************************)
(* The messages and parts the decoder is run on.                           *)
(***************************************************************************)
TextPlain == Leaf("text/plain", None, None, "utf-8", <<72, 105>>)
TextHtml == Leaf("text/html", None, None, "utf-8", <<195, 169>>)
InlineText == Leaf("text/plain", "inline", None, "utf-8", <<73>>)
Attached == Leaf("application/octet-stream", "attachment", "a.bin", None, <<255>>)
\* a second attachment of the same file name with other bytes
AttachedAgain == Leaf("application/octet-stream", "attachment", "a.bin", None, <<1, 2>>)
Unnamed == Leaf("application/octet-stream", "attachment", None, None, <<254>>)
Image == Leaf("image/png", None, None, None, <<137>>)
Leaves == {TextPlain, TextHtml, InlineText, Attached, AttachedAgain, Unnamed, Image}

\* the containers of nesting depth at most d: one sub-part or two, at most
\* one of them a container of the level below, the others leaves
RECURSIVE Containers(_)
Containers(d) ==
    IF d = 0 THEN {}
    ELSE LET below == Containers(d - 1)
         IN {Multipart(<<a>>) : a \in Leaves \cup below}
            \cup {Multipart(<<a, b>>) : a \in Leaves \cup below, b \in Leaves}
            \cup {Multipart(<<a, b>>) : a \in Leaves, b \in below}
Messages == Leaves \cup Containers(MaxDepth)

\* the Subject header: absent, empty, or a text
Subjects == {None, "", "Hello"}

ParseInput(m, s, sv) ==
    [msg |-> m, uid |-> 1, subject |-> s, from |-> "alice@example.org",
     to |-> "bot@example.org", date |-> "Fri, 30 Oct 2026 10:00:00 +0000", save |-> sv]
NoInput == ParseInput(Multipart(<<>>), None, FALSE)
NoRecord == [EmailInfo(NoInput) EXCEPT !.uid = 0]
NoText == [kind |-> "none", text |-> <<>>]

\* the byte strings and charset labels a text part is decoded with
ByteAlphabet == {65, 169, 195, 255}
ByteStrings == UNION {[1..n -> ByteAlphabet] : n \in 0..MaxBytes}
Charsets == {None, "utf-8", "iso-8859-1", "x-unknown"}

\* the parts of a message _save_attachments writes a file for, in the order
\* of the walk
ToWrite(inp) ==
    IF inp.msg.multi
       THEN SelectSeq(Walk(inp.msg), LAMBDA p : IsAttachment(inp.save, p) /\ HasFilename(p))
       ELSE <<>>

\* the faults the saving of message inp into directory store can meet:
\* os.makedirs is called, and can fail, only for the first file and a
\* missing directory; a write that raises has left less than the payload
Faults(inp, store) ==
    LET ps == ToWrite(inp)
    IN {NoFault}
       \cup (IF Len(ps) > 0 /\ ~store.dir
                THEN {[at |-> 1, how |-> "makedirs_fails", kept |-> 0]}
                ELSE {})
       \cup {[at |-> i, how |-> "open_fails", kept |-> 0] : i \in 1..Len(ps)}
       \cup UNION {{[at |-> i, how |-> "write_fails", kept |-> k] :
                       k \in 0..(IF Len(ps[i].body) = 0 THEN 0 ELSE Len(ps[i].body) - 1)} :
                    i \in 1..Len(ps)}

\* lines 179-180: _parse_email on the message and the append of its record;
\* an exception leaves the loop for the except block of line 182
ParseEmail ==
    /\ ppc = "ready"
    /\ \E w \in Faults(pin, fs) :
          LET r == ParseEmailResult(pin, fs, w)
          IN /\ fs' = r.fs
             /\ rec' = IF r.raised THEN NoRecord ELSE r.rec
             /\ emails_with_details' =
                   IF r.raised THEN emails_with_details
                   ELSE Append(emails_with_details, r.rec)
             /\ ppc' = IF r.raised THEN "raised" ELSE "parsed"
    /\ UNCHANGED <<batch, pos, pin, decoded>>
    /\ UNCHANGED <<mailVars, tgVars>>

\* the loop goes on to the next message of the batch
NextMessage ==
    /\ ppc = "parsed"
    /\ pos < Len(batch)
    /\ pos' = pos + 1
    /\ pin' = batch[pos + 1]
    /\ rec' = NoRecord
    /\ ppc' = "ready"
    /\ UNCHANGED <<batch, fs, emails_with_details, decoded>>
    /\ UNCHANGED <<mailVars, tgVars>>

\* line 184, after the last message or after the except block:
\* `return emails_with_details`
ReturnEmails ==
    /\ \/ ppc = "parsed" /\ pos = Len(batch)
       \/ ppc = "raised"
    /\ ppc' = "returned"
    /\ UNCHANGED <<batch, pos, pin, fs, rec, emails_with_details, decoded>>
    /\ UNCHANGED <<mailVars, tgVars>>

\* _decode_payload on the part
DecodePart ==
    /\ ppc = "part"
    /\ decoded' = DecodePayload(pin.msg)
    /\ ppc' = "decoded"
    /\ UNCHANGED <<batch, pos, pin, fs, rec, emails_with_details>>
    /\ UNCHANGED <<mailVars, tgVars>>

\* nothing is being decoded
MimeIdle ==
    /\ batch = <<>> /\ pos = 0 /\ emails_with_details = <<>>
    /\ pin = NoInput /\ fs = NoFiles /\ rec = NoRecord
    /\ decoded = NoText /\ ppc = "off"

(***************************************************************************)
(* send_email_with_attachment -> _send_message_with_attachments (391-418)  *)
(* and _attach_files (420-436).                                            *)
(***************************************************************************)
\* os.path.isfile(file_path)
IsFile(p) == p \in FilesOnDisk

\* os.path.basename(file_path)
Basename(p) == IF p = "docs/a.txt" THEN "a.txt" ELSE p

\* file.read() of a file on disk
FileBytes(p) == IF p = "docs/a.txt" THEN <<97>> ELSE <<98>>

\* msg.attach(MIMEText(body, "plain"))
BodyPart == Leaf("text/plain", None, None, "us-ascii", <<72, 105>>)

\* the MIMEBase part built for a file: lines 430-435
AttachmentPart(p) ==
    Leaf("application/octet-stream", "attachment", Basename(p), None, FileBytes(p))

\* _attach_files from position i on: a file is attached, anything else
\* is skipped with logging.warning
RECURSIVE AttachFrom(_, _, _)
AttachFrom(ps, i, d) ==
    IF i > Len(ps) THEN d
    ELSE IF IsFile(ps[i])
            THEN AttachFrom(ps, i + 1, [d EXCEPT !.parts = Append(@, AttachmentPart(ps[i]))])
            ELSE AttachFrom(ps, i + 1, [d EXCEPT !.warned = Append(@, ps[i])])

\* the message built: the body part, then `if attachments:` the files
BuiltMessage(ps) == AttachFrom(ps, 1, [NoData EXCEPT !.parts = <<BodyPart>>])

\* build the MIMEMultipart, attach the files, server.send_message(msg).
\* The build is inside the try: when MIMEText(body) raises, or open() or
\* read() of a file os.path.isfile accepted, nothing is sent ("nobuild")
SendMessageWithAttachments ==
    /\ pc = "send_att"
    /\ \E r \in {"OK", "raise", "nobuild"} :
          IF r = "nobuild"
             THEN issued' = issued /\ Raise
             ELSE /\ issued' = Append(issued, [Cmd("SEND", 0, "", r) EXCEPT
                                                  !.data = BuiltMessage(args.paths)])
                  /\ IF r = "OK" THEN pc' = "close" /\ raised' = raised ELSE Raise
    /\ smtpFrame
    /\ UNCHANGED sideVars

(***************************************************************************)
(* TelegramBot (src/telegram/telegrambot-class.py): the chat histories     *)
(* kept in memory.  chat_histories is the dict of line 42, a function from *)
(* the chat ids that have a history to their lists of entries.             *)
(***************************************************************************)
Chats == {1, 2}

\* the sender of a message as save_message_to_history sees it: None when
\* message.from_user is None, Anonymous for a user whose username is None
\* (User.username is optional), or the username
Anonymous == "<no username>"
Senders == {None, Anonymous, "alice"}
Username(u) == IF u = Anonymous THEN None ELSE u

\* the messages aiogram hands over; text is None for a message that carries
\* a file
TgMessages(n) ==
    {[chat |-> c, message_id |-> n, from_user |-> u, text |-> t] :
        c \in Chats, u \in Senders, t \in {None, "", "hello"}}

\* the arguments of MessageHistory(...) in lines 215-219; `message.text or
\* "[File]"` replaces None and the empty text
HistoryEntry(m) ==
    [message_id |-> m.message_id,
     from_user |-> IF m.from_user # None THEN Username(m.from_user) ELSE "Bot",
     text |-> IF m.text \notin {None, ""} THEN m.text ELSE "[File]"]

\* MessageHistory declares from_user: str, so pydantic raises ValidationError
\* when None is passed for it
EntryValid(e) == e.from_user # None

\* save_message_to_history(message) raises
SaveRaises(m) == ~EntryValid(HistoryEntry(m))

\* save_message_to_history(message): lines 207-219.  The list of the chat is
\* created before MessageHistory is built, so it is there when that raises
SaveMessageToHistory(h, m) ==
    LET h0 == IF m.chat \in DOMAIN h THEN h
              ELSE [c \in DOMAIN h \cup {m.chat} |-> IF c = m.chat THEN <<>> ELSE h[c]]
    IN IF EntryValid(HistoryEntry(m))
          THEN [h0 EXCEPT ![m.chat] = Append(@, HistoryEntry(m))]
          ELSE h0

\* the Python slice lst[start:]: a negative start counts from the end, and
\* a start outside the list is clipped to it
PySliceFrom(lst, start) ==
    LET n == Len(lst)
        s == IF start < 0 THEN (IF n + start < 0 THEN 0 ELSE n + start)
             ELSE (IF start > n THEN n ELSE start)
    IN SubSeq(lst, s + 1, n)

\* get_chat_history(chat_id, limit): lines 94-105
GetChatHistoryResult(h, c, limit) ==
    IF c \notin DOMAIN h THEN <<>> ELSE PySliceFrom(h[c], 0 - limit)

NoQuery == [chat |-> 0, limit |-> 0, result |-> <<>>]

\* one call of save_message_to_history, as the chat and the message it was for
SaveCall(m) == [chat |-> m.chat, message_id |-> m.message_id]

\* a message is recorded
SaveMessage ==
    /\ tpc = "on"
    /\ msgid <= MaxHistory
    /\ \E m \in TgMessages(msgid) :
          /\ chat_histories' = SaveMessageToHistory(chat_histories, m)
          /\ saves' = Append(saves, SaveCall(m))
    /\ msgid' = msgid + 1
    /\ hquery' = NoQuery
    /\ UNCHANGED <<tpc, tasks>>
    /\ UNCHANGED <<mailVars, mimeVars>>

\* get_chat_history is called
GetChatHistory ==
    /\ tpc = "on"
    /\ \E c \in Chats, limit \in 0..MaxLimit :
          hquery' = [chat |-> c, limit |-> limit,
                     result |-> GetChatHistoryResult(chat_histories, c, limit)]
    /\ UNCHANGED <<chat_histories, msgid, tpc, tasks, saves>>
    /\ UNCHANGED <<mailVars, mimeVars>>

(***************************************************************************)
(* The async handlers.  A coroutine gives up control only at an await;     *)
(* the one await of handle_start, handle_stop and send_message that can    *)
(* suspend is `await self.bot.send_message(...)` (line 83), so each        *)
(* handler runs in two steps: up to that await, and from its completion    *)
(* to the end.  Any number of other handlers may run in between.           *)
(***************************************************************************)
Commands == {"handle_start", "handle_stop"}

\* the command message aiogram hands to handle_start or handle_stop; it has
\* a sender u, with or without a username
CommandMessage(kind, c, n, u) ==
    [chat |-> c, message_id |-> n, from_user |-> u,
     text |-> IF kind = "handle_start" THEN "/start" ELSE "/stop"]

\* the Message bot.send_message returns: sent by the bot's own account
SentMessage(c, n) == [chat |-> c, message_id |-> n, from_user |-> "the_bot", text |-> "reply"]

\* lines 64-68 and 72-76 down to the await of line 83: the command has come
\* in, the handler has logged it and waits for its reply to be sent
HandleCommand(kind) ==
    /\ tpc = "on"
    /\ Len(tasks) < MaxTasks
    /\ \E c \in Chats, u \in Senders \ {None} :
          tasks' = Append(tasks, [kind |-> kind, at |-> "sending", chat |-> c,
                                  sender |-> u, command |-> msgid, reply |-> 0])
    /\ msgid' = msgid + 1
    /\ UNCHANGED <<chat_histories, hquery, tpc, saves>>
    /\ UNCHANGED <<mailVars, mimeVars>>

HandleStart == HandleCommand("handle_start")
HandleStop == HandleCommand("handle_stop")

\* send_message(chat_id, text) called by the application: lines 80-83
TgSendMessage ==
    /\ tpc = "on"
    /\ Len(tasks) < MaxTasks
    /\ \E c \in Chats :
          tasks' = Append(tasks, [kind |-> "send_message", at |-> "sending", chat |-> c,
                                  sender |-> None, command |-> 0, reply |-> 0])
    /\ UNCHANGED <<chat_histories, hquery, msgid, tpc, saves>>
    /\ UNCHANGED <<mailVars, mimeVars>>

\* the command message of a handler
CommandOf(task) == CommandMessage(task.kind, task.chat, task.command, task.sender)

\* what a handler does after its send_message returned: lines 70 and 78
AfterSend(task, h) ==
    IF task.kind \in Commands THEN SaveMessageToHistory(h, CommandOf(task)) ELSE h

\* the await of line 83 completes.  On success lines 84-86 record the sent
\* message and the handler goes on; it ends by raising when recording the
\* command raises.  On an exception the clause `except ClientSession` of
\* line 87 is evaluated first; ClientSession is no exception class, so this
\* raises TypeError out of send_message and out of the handler that
\* awaited it.
SendReturns ==
    /\ tpc = "on"
    /\ \E t \in 1..Len(tasks), sent \in BOOLEAN :
          /\ tasks[t].at = "sending"
          /\ IF sent
                THEN /\ tasks' = [tasks EXCEPT
                                    ![t].at = IF tasks[t].kind \in Commands
                                                 /\ SaveRaises(CommandOf(tasks[t]))
                                                 THEN "raised" ELSE "done",
                                    ![t].reply = msgid]
                     /\ chat_histories' =
                           AfterSend(tasks[t],
                              SaveMessageToHistory(chat_histories,
                                                   SentMessage(tasks[t].chat, msgid)))
                     /\ saves' = saves \o <<SaveCall(SentMessage(tasks[t].chat, msgid))>>
                                   \o (IF tasks[t].kind \in Commands
                                          THEN <<SaveCall(CommandOf(tasks[t]))>>
                                          ELSE <<>>)
                     /\ msgid' = msgid + 1
                ELSE /\ tasks' = [tasks EXCEPT ![t].at = "raised"]
                     /\ UNCHANGED <<chat_histories, saves, msgid>>
    /\ UNCHANGED <<hquery, tpc>>
    /\ UNCHANGED <<mailVars, mimeVars>>

\* no TelegramBot has been constructed
TgIdle ==
    /\ chat_histories = <<>> /\ hquery = NoQuery /\ msgid = 1 /\ tpc = "off"
    /\ tasks = <<>> /\ saves = <<>>

(***************************************************************************)
(* Specifications.                                                         *)
(***************************************************************************)
\* the mailbox when the bot is constructed: two messages in INBOX, each of
\* which another client may have flagged \Deleted already, and one in Archiv
InitBox ==
    /\ \E d1, d2 \in BOOLEAN :
          folders = [f \in ServerFolders |->
                        IF f = "INBOX"
                           THEN {[id |-> 1, uid |-> 1, del |-> d1, seen |-> FALSE],
                                 [id |-> 2, uid |-> 2, del |-> d2, seen |-> FALSE]}
                           ELSE {[id |-> 3, uid |-> 1, del |-> FALSE, seen |-> FALSE]}]
    /\ uidnext = [f \in ServerFolders |-> IF f = "INBOX" THEN 3 ELSE 2]
    /\ delim \in {"/", "."}

InitCall ==
    /\ attempt = 0 /\ attempts = 0 /\ failures = 0 /\ sleeps = 0
    /\ lastEv = "none" /\ conn = NoConn /\ plainLogin = FALSE /\ stale = 0
    /\ held = FALSE
    /\ sess = "unset"
    /\ selected = "none" /\ issued = <<>> /\ closes = 0
    /\ raised = FALSE /\ ret = "unset"
    /\ args = NoArgs /\ names = <<>> /\ prev = NoPrev
    /\ ids = <<>> /\ idx = 1 /\ outcomes = <<>> /\ results = <<>>
    /\ searchOk = FALSE /\ writes = 0
    /\ calls = 0

\* the bot after construction, before any operation is called
Init ==
    /\ pc = "idle"
    /\ op = "none"
    /\ proto = "smtp" /\ retries = DefaultRetries
    /\ InitCall
    /\ InitBox
    /\ pre = folders
    /\ MimeIdle /\ TgIdle

Next ==
    \/ Call
    \/ ConnectOpen \/ StartTls \/ Login \/ Sleep \/ ConnectGiveUp
    \/ CheckSession
    \/ SendMessage \/ SendMessageWithAttachments \/ ReplyToEmail
    \/ GetFolders
    \/ MoveList \/ MoveSelect \/ MoveCopy \/ MoveStore \/ MoveExpunge
    \/ FetchSelect \/ FetchSearch \/ FetchOne \/ FetchDone
    \/ Close

Spec == Init /\ [][Next]_vars

\* the bot used for fetching mail and filing it
NextFetch ==
    \/ CallFetch \/ CallMove
    \/ ConnectOpen \/ Login \/ Sleep \/ ConnectGiveUp
    \/ CheckSession
    \/ MoveList \/ MoveSelect \/ MoveCopy \/ MoveStore \/ MoveExpunge
    \/ FetchSelect \/ FetchSearch \/ FetchOne \/ FetchDone
    \/ Close

SpecFetch == Init /\ [][NextFetch]_vars

\* _connect_smtp(retries, delay) / _connect_imap(retries, delay) called directly
InitConnect ==
    /\ pc = "attempt"
    /\ op = "_connect"
    /\ proto \in {"smtp", "imap"}
    /\ retries \in 0..MaxRetries
    /\ InitCall
    /\ InitBox
    /\ pre = folders
    /\ MimeIdle /\ TgIdle

NextConnect == ConnectOpen \/ StartTls \/ Login \/ Sleep \/ ConnectGiveUp

SpecConnect == InitConnect /\ [][NextConnect]_vars

\* no EmailBot operation is running
MailIdle ==
    /\ pc = "off" /\ op = "none"
    /\ proto = "smtp" /\ retries = DefaultRetries
    /\ InitCall
    /\ folders = [f \in ServerFolders |-> {}]
    /\ uidnext = [f \in ServerFolders |-> 1]
    /\ delim = "/"
    /\ pre = folders

\* the file an earlier message of a batch leaves under the name a.bin, and
\* that message: one attachment part of that name
EarlierFile == [name |-> "a.bin", body |-> <<7>>]
EarlierMessage ==
    Multipart(<<Leaf("application/octet-stream", "attachment", "a.bin", None, <<7>>)>>)

\* the batches: a message, after up to MaxBatch - 1 earlier messages; the
\* uid of a message is its position and save_attachments is one argument
\* of the whole fetch
Batch(k, m, s, sv) ==
    [i \in 1..(k + 1) |->
        [(IF i <= k THEN ParseInput(EarlierMessage, "Hello", sv)
                    ELSE ParseInput(m, s, sv)) EXCEPT !.uid = i]]

\* the fetch loop of lines 173-180 about to parse the first message of a
\* batch, the attachment directory not yet created
InitParse ==
    /\ MailIdle /\ TgIdle
    /\ \E k \in 0..(MaxBatch - 1), m \in Messages, s \in Subjects, sv \in BOOLEAN :
          batch = Batch(k, m, s, sv)
    /\ pos = 1 /\ pin = batch[1] /\ emails_with_details = <<>>
    /\ fs = NoFiles
    /\ rec = NoRecord /\ decoded = NoText /\ ppc = "ready"

NextParse == ParseEmail \/ NextMessage \/ ReturnEmails

SpecParse == InitParse /\ [][NextParse]_vars

\* _decode_payload called on a text part
InitDecode ==
    /\ MailIdle /\ TgIdle
    /\ \E cs \in Charsets, b \in ByteStrings :
          pin = ParseInput(Leaf("text/plain", None, None, cs, b), "Hello", FALSE)
    /\ batch = <<>> /\ pos = 0 /\ emails_with_details = <<>>
    /\ fs = NoFiles /\ rec = NoRecord /\ decoded = NoText /\ ppc = "part"

NextDecode == DecodePart

SpecDecode == InitDecode /\ [][NextDecode]_vars

\* the TelegramBot after construction (line 42), recording and reading histories
InitHistory ==
    /\ MailIdle /\ MimeIdle
    /\ chat_histories = <<>> /\ hquery = NoQuery /\ msgid = 1 /\ tpc = "on"
    /\ tasks = <<>> /\ saves = <<>>

NextHistory == SaveMessage \/ GetChatHistory

SpecHistory == InitHistory /\ [][NextHistory]_vars

(***************************************************************************)
(* The handlers of one TelegramBot running concurrently                    *)
(***************************************************************************)
NextHandlers == HandleStart \/ HandleStop \/ TgSendMessage \/ SendReturns

SpecHandlers == InitHistory /\ [][NextHandlers]_vars

(***************************************************************************)
(* Vocabulary of the properties.                                           *)
(***************************************************************************)
Returned == pc \in {"returned", "raised"}
InMove == op = "move_email_to_folder" /\ args # NoArgs
InFetch == op \in FetchOps /\ args # NoArgs

\* positions of the command log holding command c
At(c) == {i \in 1..Len(issued) : issued[i].cmd = c}
Issued(c) == At(c) # {}
RespOf(c) == {issued[i].resp : i \in At(c)}

\* the messages the uid argument identified in the source folder at the call
Identified == {m \in pre[Mailbox(SourceFolder)] : m.uid = args.uid}

\* the copies of a content a folder holds
Copies(box, f, m) == {x \in box[f] : x.id = m.id}

\* the server folder the target argument names, when it names one
TargetBox == IF args.target \in ServerFolders THEN {args.target} ELSE {}

\* the names the server reported in the LIST data of this call
ReportedNames ==
    IF RespOf("LIST") = {"OK"}
       THEN {ListData("OK", delim)[i].name : i \in 1..Len(ListOrder)}
       ELSE {}

(***************************************************************************)
(* C1.  In _move_email, STORE +FLAGS \Deleted and EXPUNGE are issued only  *)
(* after the COPY of the same message answered OK; when the COPY response  *)
(* is not OK neither is issued, and the source message is still in the     *)
(* source folder when the operation returns.                               *)
(***************************************************************************)
C1_DeleteOnlyAfterCopyOk ==
    InMove =>
       /\ \A i \in At("STORE") \cup At("EXPUNGE") :
             \E j \in At("COPY") :
                /\ j < i
                /\ issued[j].resp = "OK"
                /\ issued[j].uid = args.uid
                /\ issued[i].cmd = "STORE" => issued[i].uid = issued[j].uid
       /\ (Issued("COPY") /\ "OK" \notin RespOf("COPY")) =>
             /\ ~Issued("STORE")
             /\ ~Issued("EXPUNGE")
             /\ Returned => \A m \in Identified : m \in folders[Mailbox(SourceFolder)]

C1_Witness ==
    /\ InMove
    /\ pc = "returned"
    /\ RespOf("COPY") = {"NO"}
    /\ Identified # {}
    /\ Identified \subseteq folders["INBOX"]

(***************************************************************************)
(* C2.  When the target folder exists and COPY, STORE and EXPUNGE all      *)
(* succeed, after move_email_to_folder returns the identified message is   *)
(* absent from the source folder and present in the target folder, as      *)
(* exactly one copy.                                                       *)
(***************************************************************************)
MoveAllSucceeded ==
    /\ InMove
    /\ pc = "returned"
    /\ RespOf("COPY") = {"OK"}
    /\ RespOf("STORE") = {"OK"}
    /\ RespOf("EXPUNGE") = {"OK"}

C2_MovedWhenAllSucceed ==
    MoveAllSucceeded =>
       \A m \in Identified :
          /\ m \notin folders[Mailbox(SourceFolder)]
          /\ \A t \in TargetBox : Cardinality(Copies(folders, t, m)) = 1

(***************************************************************************)
(* C3.  At every point of every execution of move, the message exists in   *)
(* at least one of the source folder and the target folder.                *)
(***************************************************************************)
C3_NeverLost ==
    InMove =>
       \A m \in Identified :
          \E f \in {Mailbox(SourceFolder)} \cup TargetBox : Copies(folders, f, m) # {}

(***************************************************************************)
(* C4.  A move to a target folder that is not among the folder names LIST  *)
(* reported issues no SELECT, COPY, STORE or EXPUNGE, leaves the contents  *)
(* and flags of every folder unchanged, and still logs the session out.    *)
(***************************************************************************)
C4_MissingTargetFailsFast ==
    (InMove /\ Issued("LIST") /\ args.target \notin ReportedNames) =>
       /\ \A c \in {"SELECT", "COPY", "STORE", "EXPUNGE"} : ~Issued(c)
       /\ folders = pre
       /\ pc \in {"close", "returned", "raised"}
       /\ Returned => closes = 1 /\ sess = "closed" /\ Issued("LOGOUT")

(***************************************************************************)
(* C5.  For every retry count N >= 1: when the first N-1 attempts of       *)
(* _connect raise and the Nth succeeds, _connect returns the session the   *)
(* Nth attempt opened, after exactly N attempts and N-1 sleeps, none of    *)
(* them after the successful attempt.                                      *)
(***************************************************************************)
C5_SucceedsOnLastAttempt ==
    (pc = "acquired" /\ retries >= 1 /\ failures = retries - 1) =>
       /\ sess = "open"
       /\ conn.open
       /\ attempts = retries
       /\ sleeps = retries - 1
       /\ lastEv = "attempt"

C5_Witness ==
    /\ pc = "acquired"
    /\ retries >= 3
    /\ failures = retries - 1
    /\ sess = "open"

(***************************************************************************)
(* C6.  For every retries value R >= 0: when every attempt raises,         *)
(* _connect stops after exactly R attempts, sleeps only between two        *)
(* consecutive attempts, and returns None.                                 *)
(***************************************************************************)
C6_GivesUpAfterRetries ==
    /\ attempts <= retries
    /\ pc = "sleep" => lastEv = "attempt" /\ attempts < retries
    /\ (pc = "acquired" /\ failures = attempts) =>
          /\ sess = "None"
          /\ attempts = retries
          /\ sleeps = (IF retries = 0 THEN 0 ELSE retries - 1)
          /\ lastEv # "sleep"

C6_Witness ==
    /\ pc = "acquired"
    /\ retries >= 2
    /\ failures = retries
    /\ sess = "None"

(***************************************************************************)
(* C7.  When no session could be acquired, each public operation returns   *)
(* without raising, without any protocol command and without any file      *)
(* write; the fetch and list operations return an empty list.              *)
(***************************************************************************)
C7_NoSessionNoEffect ==
    (op \in Ops /\ sess = "None") =>
       /\ issued = <<>>
       /\ writes = 0
       /\ closes = 0
       /\ ~raised
       /\ folders = pre
       /\ pc \in {"acquired", "returned"}
       /\ pc = "returned" =>
             IF op \in {"fetch_emails", "get_conversation_with_contact", "list_folders"}
                THEN ret = "list" /\ results = <<>> /\ names = <<>>
                ELSE ret = "None"

C7_Witness ==
    /\ pc = "returned"
    /\ sess = "None"
    /\ op = "fetch_emails"
    /\ ret = "list"

(***************************************************************************)
(* C8.  Every public operation that acquired a session closes it exactly   *)
(* once before it ends (quit for SMTP, logout for IMAP), whatever command  *)
(* in between failed or raised, and issues nothing on it after the close.  *)
(***************************************************************************)
CloseCmd == IF proto = "smtp" THEN "QUIT" ELSE "LOGOUT"

C8_SessionClosedOnce ==
    /\ closes <= 1
    /\ (op \in Ops /\ Returned /\ sess # "None") =>
          /\ closes = 1
          /\ sess = "closed"
          /\ At(CloseCmd) = {Len(issued)}
          /\ At("QUIT") \cup At("LOGOUT") = {Len(issued)}

(***************************************************************************)
(* C9.  Credentials are sent only on an encrypted transport: for SMTP the  *)
(* login follows a STARTTLS that succeeded on that connection, for IMAP    *)
(* the connection is an implicit-TLS one.                                  *)
(***************************************************************************)
C9_LoginOnlyEncrypted ==
    /\ ~plainLogin
    /\ pc = "login" => conn.open /\ conn.tls
    /\ sess = "open" /\ pc = "acquired" => conn.tls

C9_Witness ==
    /\ pc = "acquired"
    /\ proto = "smtp"
    /\ sess = "open"
    /\ conn.tls
    /\ failures >= 1

(***************************************************************************)
(* C10.  In a fetch, a FETCH is issued for every identifier the search     *)
(* returned, whatever happened to earlier identifiers, and the result      *)
(* holds a record for exactly the identifiers whose fetch and decode       *)
(* succeeded, in search order.                                             *)
(***************************************************************************)
RECURSIVE Succeeded(_)
Succeeded(n) ==
    IF n = 0 THEN <<>>
    ELSE IF n <= Len(outcomes) /\ outcomes[n] = "ok"
            THEN Append(Succeeded(n - 1), ids[n])
            ELSE Succeeded(n - 1)

C10_EveryIdentifierFetched ==
    (InFetch /\ Returned /\ searchOk) =>
       /\ \A i \in 1..Len(ids) : \E k \in At("FETCH") : issued[k].uid = ids[i]
       /\ results = Succeeded(Len(ids))

(***************************************************************************)
(* C11.  When the search returned k identifiers and every FETCH answered   *)
(* OK, the fetch returns exactly k records, one per identifier in search   *)
(* order, each carrying the uid of its identifier.                         *)
(***************************************************************************)
C11_OneRecordPerIdentifier ==
    (InFetch /\ Returned /\ searchOk /\ RespOf("FETCH") \subseteq {"OK"}) =>
       results = ids

(***************************************************************************)
(* C12.  Every record a fetch returns has a non-empty subject: a message   *)
(* whose Subject header is missing or empty gets a placeholder, never an   *)
(* empty or null value; a subject the message carries is kept.             *)
(***************************************************************************)
C12_SubjectNeverEmpty ==
    ppc = "parsed" =>
       /\ rec.subject \notin {None, ""}
       /\ (pin.subject \notin {None, ""} => rec.subject = pin.subject)

(***************************************************************************)
(* C13.  When a fetch that saves attachments has decoded a message, every  *)
(* part of it with content-disposition attachment and a non-empty filename *)
(* is a file of the attachment directory (which exists) and is listed in   *)
(* the record's attachments, for a multipart and for a single-part message.*)
(***************************************************************************)
AttachmentParts(m) ==
    {i \in 1..Len(Walk(m)) : Walk(m)[i].disp = "attachment" /\ HasFilename(Walk(m)[i])}

C13_EveryAttachmentSaved ==
    (ppc = "parsed" /\ pin.save) =>
       \A i \in AttachmentParts(pin.msg) :
          LET part == Walk(pin.msg)[i]
          IN /\ fs.dir
             /\ [name |-> part.fname, body |-> part.body] \in fs.files
             /\ \E k \in 1..Len(rec.attachments) : rec.attachments[k] = part.fname

(***************************************************************************)
(* C14.  _decode_payload never raises, whatever the bytes of the part and  *)
(* whatever charset label it declares (an invalid one included): it always *)
(* returns a text, and for bytes that are valid UTF-8 that text is their   *)
(* UTF-8 decoding.  No part is undecodable, since the latin-1 step accepts *)
(* every byte string, so nothing remains for an error marker to stand for. *)
(***************************************************************************)
C14_DecodeNeverRaises ==
    ppc = "decoded" =>
       /\ decoded.kind = "text"
       /\ Utf8Decode(pin.msg.body).ok => decoded.text = Utf8Decode(pin.msg.body).text

\* an invalid charset label on valid UTF-8 bytes: the text is recovered
C14_Witness ==
    /\ ppc = "decoded"
    /\ pin.msg.charset = "x-unknown"
    /\ pin.msg.body = <<65, 195, 169>>
    /\ decoded = [kind |-> "text", text |-> <<65, 233>>]

(***************************************************************************)
(* C15.  When send_email_with_attachment got its session, whatever the     *)
(* list of attachment paths, the message is handed to the SMTP session     *)
(* exactly once; after the body it holds one attachment part per path      *)
(* that is a file on disk, in list order, and every other path was         *)
(* skipped with a warning.                                                 *)
(***************************************************************************)
OnDisk(p) == p \in FilesOnDisk
NotOnDisk(p) == p \notin FilesOnDisk

C15_OneAttachmentPerFile ==
    (op = "send_email_with_attachment" /\ Returned /\ closes = 1) =>
       /\ Cardinality(At("SEND")) = 1
       /\ \A k \in At("SEND") :
             LET files == SelectSeq(args.paths, OnDisk)
                 atts == SubSeq(issued[k].data.parts, 2, Len(issued[k].data.parts))
             IN /\ issued[k].data.parts[1] = BodyPart
                /\ Len(atts) = Len(files)
                /\ \A i \in 1..Len(files) :
                      /\ atts[i].disp = "attachment"
                      /\ atts[i].fname = Basename(files[i])
                      /\ atts[i].body = FileBytes(files[i])
                /\ issued[k].data.warned = SelectSeq(args.paths, NotOnDisk)


(***************************************************************************)
(* C16.  get_chat_history(chat_id, limit) with limit >= 0 returns at most  *)
(* limit entries: the last min(limit, length) entries of that chat's       *)
(* history in their stored order, and the empty list for a chat that has   *)
(* no history.                                                             *)
(***************************************************************************)
HistoryOf(c) == IF c \in DOMAIN chat_histories THEN chat_histories[c] ELSE <<>>

C16_AtMostLimitEntries ==
    hquery # NoQuery =>
       LET h == HistoryOf(hquery.chat)
           n == IF hquery.limit < Len(h) THEN hquery.limit ELSE Len(h)
       IN /\ Len(hquery.result) <= hquery.limit
          /\ hquery.result = SubSeq(h, Len(h) - n + 1, Len(h))

(***************************************************************************)
(* C17.  A connection on which STARTTLS or login failed is closed before   *)
(* the next attempt of _connect starts, and when _connect returns no       *)
(* connection of a failed attempt is open: only the returned session is.   *)
(***************************************************************************)
C17_FailedConnectionsClosed ==
    (op = "_connect" /\ (pc = "acquired" \/ (pc = "attempt" /\ attempt < retries))) =>
       stale = 0

(***************************************************************************)
(* C18.  Within one call the identifier scheme is never mixed: every       *)
(* command that yields or takes a message identifier (SEARCH, FETCH, COPY, *)
(* STORE) is a UID command; each FETCH takes an identifier the UID SEARCH  *)
(* of that call returned, and STORE takes the identifier the UID COPY took.*)
(***************************************************************************)
Addressing == At("SEARCH") \cup At("FETCH") \cup At("COPY") \cup At("STORE")

C18_UidSchemeNotMixed ==
    /\ \A i, j \in Addressing : issued[i].byUid /\ issued[i].byUid = issued[j].byUid
    /\ \A i \in At("FETCH") :
          /\ \E j \in At("SEARCH") : j < i /\ issued[j].byUid = issued[i].byUid
          /\ \E k \in 1..Len(ids) : ids[k] = issued[i].uid
    /\ \A i \in At("STORE") :
          \E j \in At("COPY") :
             j < i /\ issued[j].uid = issued[i].uid /\ issued[j].byUid = issued[i].byUid

\* a fetch that searched, fetched two identifiers and returned
C18_Witness ==
    /\ InFetch /\ pc = "returned"
    /\ Cardinality(At("FETCH")) = 2
    /\ RespOf("FETCH") = {"OK"}

(***************************************************************************)
(* C19.  Decoding a part's bytes tries the charset the part declares       *)
(* first; only when that fails does it fall back through utf-8, then       *)
(* latin-1, then iso-8859-1 with lossy replacement, in this order.         *)
(***************************************************************************)
\* decoding with the declared charset; an absent or unknown label fails
DeclaredCodec(cs, b) ==
    CASE cs = "utf-8" -> Utf8Decode(b)
      [] cs = "iso-8859-1" -> Latin1Decode(b)
      [] OTHER -> DecodeError

FallbackText(b) == IF Utf8Decode(b).ok THEN Utf8Decode(b).text ELSE Latin1Decode(b).text

C19_DeclaredCharsetFirst ==
    ppc = "decoded" =>
       decoded.text = IF DeclaredCodec(pin.msg.charset, pin.msg.body).ok
                         THEN DeclaredCodec(pin.msg.charset, pin.msg.body).text
                         ELSE FallbackText(pin.msg.body)

(***************************************************************************)
(* C20.  For a multipart message of any nesting depth the record's text    *)
(* is the concatenation, in pre-order traversal, of the decoded payloads   *)
(* of exactly the parts that have no content-disposition and content type  *)
(* text/plain or text/html; a part with a disposition (inline or           *)
(* attachment) or of another type contributes nothing.                     *)
(***************************************************************************)
RECURSIVE BodyTextOf(_)
RECURSIVE BodyTextOfAll(_, _)
BodyTextOf(p) ==
    IF p.multi THEN BodyTextOfAll(p.kids, 1)
    ELSE IF p.disp = None /\ (p.ctype = "text/plain" \/ p.ctype = "text/html")
            THEN DecodePayload(p).text
            ELSE <<>>
BodyTextOfAll(ks, i) ==
    IF i > Len(ks) THEN <<>> ELSE BodyTextOf(ks[i]) \o BodyTextOfAll(ks, i + 1)

C20_TextInTraversalOrder ==
    (ppc = "parsed" /\ pin.msg.multi) => rec.text = BodyTextOf(pin.msg)

\* a nested container before a plain text: the html of the inner container
\* comes first, its attachment contributes nothing
C20_Witness ==
    /\ ppc = "parsed"
    /\ pin.msg = Multipart(<<Multipart(<<TextHtml, Attached>>), TextPlain>>)
    /\ rec.text = <<233, 72, 105>>

(***************************************************************************)
(* C21.  Every attachment name listed in a record fetch_emails returns is  *)
(* a file whose write completed before the records were returned: the file *)
(* is in the attachment directory and holds all the bytes of an attachment *)
(* part of that name of the batch; the record of a message whose           *)
(* attachment write failed is not among the records returned.              *)
(***************************************************************************)
\* the payloads of the attachment parts named n in the messages of the batch
PayloadsNamed(n) ==
    UNION {{Walk(batch[j].msg)[i].body :
               i \in {x \in AttachmentParts(batch[j].msg) : Walk(batch[j].msg)[x].fname = n}} :
             j \in 1..Len(batch)}

C21_ListedAttachmentsWritten ==
    /\ ppc = "returned" =>
          \A r \in 1..Len(emails_with_details) :
             \A k \in 1..Len(emails_with_details[r].attachments) :
                LET n == emails_with_details[r].attachments[k]
                IN \E b \in PayloadsNamed(n) : [name |-> n, body |-> b] \in fs.files
    /\ ppc = "raised" =>
          /\ rec = NoRecord
          /\ \A r \in 1..Len(emails_with_details) : emails_with_details[r].uid < pos

(***************************************************************************)
(* C22.  Attachment parts of the same file name saved into the same        *)
(* directory share one file and no new name is invented: after the message *)
(* the directory holds, under each name written, exactly one file with the *)
(* bytes of the part processed last, an earlier file of that name (of this *)
(* message or of an earlier message of the batch) is replaced, and the     *)
(* record lists the name once per part.                                    *)
(***************************************************************************)
\* the named attachment parts _save_attachments is called on, in walk order
SavedParts(inp) ==
    IF inp.msg.multi /\ inp.save
       THEN SelectSeq(Walk(inp.msg), LAMBDA p : p.disp = "attachment" /\ HasFilename(p))
       ELSE <<>>

\* the position of the last part of sequence ps that has the name n
LastNamed(ps, n) == CHOOSE i \in 1..Len(ps) :
                       ps[i].fname = n /\ \A j \in (i + 1)..Len(ps) : ps[j].fname # n

C22_SameNameOverwrites ==
    ppc = "parsed" =>
       LET ps == SavedParts(pin)
           written == {ps[i].fname : i \in 1..Len(ps)}
       IN /\ rec.attachments = [i \in 1..Len(ps) |-> ps[i].fname]
          /\ {f.name : f \in fs.files} \subseteq written \cup {"a.bin"}
          /\ \A n \in written :
                {f \in fs.files : f.name = n}
                   = {[name |-> n, body |-> ps[LastNamed(ps, n)].body]}
          /\ ps = <<>> => fs.files \subseteq {EarlierFile}

\* two parts named a.bin in one message: the record lists the name twice and
\* the one file holds the bytes of the second part
C22_Witness ==
    /\ ppc = "parsed"
    /\ pin.msg = Multipart(<<Attached, AttachedAgain>>)
    /\ rec.attachments = <<"a.bin", "a.bin">>
    /\ fs.files = {[name |-> "a.bin", body |-> <<1, 2>>]}

(***************************************************************************)
(* C23.  The histories start empty; every message the bot sent with        *)
(* send_message and every command message a handle_start or handle_stop    *)
(* that has ended was called for is in the history of its own chat exactly *)
(* once and in no other chat's history; a send that failed left no entry.  *)
(***************************************************************************)
\* how often the message with identifier n is in the history of chat c
TimesIn(c, n) == Cardinality({i \in 1..Len(HistoryOf(c)) : HistoryOf(c)[i].message_id = n})

RecordedOnce(c, n) ==
    \A d \in Chats : TimesIn(d, n) = (IF d = c THEN 1 ELSE 0)

C23_EveryMessageRecordedOnce ==
    /\ tasks = <<>> /\ saves = <<>> => chat_histories = <<>>
    /\ \A t \in 1..Len(tasks) :
          /\ tasks[t].at = "done" => RecordedOnce(tasks[t].chat, tasks[t].reply)
          /\ (tasks[t].at \in {"done", "raised"} /\ tasks[t].kind \in Commands) =>
                RecordedOnce(tasks[t].chat, tasks[t].command)

(***************************************************************************)
(* C28.  Whatever the interleaving of the handlers, no append is lost or   *)
(* duplicated: the history of each chat holds exactly one entry per call   *)
(* of save_message_to_history for that chat, in the order of the calls,    *)
(* also when two handlers record the first messages of the same chat.      *)
(***************************************************************************)
ForChat(c) == SelectSeq(saves, LAMBDA s : s.chat = c)

C28_NoAppendLostOrDuplicated ==
    \A c \in Chats :
       /\ Len(HistoryOf(c)) = Len(ForChat(c))
       /\ \A i \in 1..Len(ForChat(c)) : HistoryOf(c)[i].message_id = ForChat(c)[i].message_id

(***************************************************************************)
(* C29.  In a chat's history the command message handled by handle_start   *)
(* or handle_stop stands before the bot's reply to it.                     *)
(***************************************************************************)
\* the position of the message with identifier n in the history of chat c
PositionIn(c, n) == CHOOSE i \in 1..Len(HistoryOf(c)) : HistoryOf(c)[i].message_id = n

C29_CommandBeforeReply ==
    \A t \in 1..Len(tasks) :
       (tasks[t].kind \in Commands /\ tasks[t].at = "done"
          /\ TimesIn(tasks[t].chat, tasks[t].command) = 1
          /\ TimesIn(tasks[t].chat, tasks[t].reply) = 1) =>
             PositionIn(tasks[t].chat, tasks[t].command)
                < PositionIn(tasks[t].chat, tasks[t].reply)

(***************************************************************************)
(* C24.  A move removes from the source folder only the message the given  *)
(* uid identifies: every other message the source folder held when the     *)
(* move was called, those already flagged \Deleted included, is still in   *)
(* the source folder when the move has returned.                           *)
(***************************************************************************)
C24_OnlyGivenUidRemoved ==
    (InMove /\ Returned) =>
       \A m \in pre[Mailbox(SourceFolder)] :
          m.uid # args.uid =>
             \E x \in folders[Mailbox(SourceFolder)] : x.id = m.id /\ x.uid = m.uid

(***************************************************************************)
(* C26.  A move logs its success line only when, at its return, the        *)
(* message is absent from the source folder and present in the target      *)
(* folder; when COPY answered OK and STORE of \Deleted did not, success    *)
(* is not logged.                                                          *)
(***************************************************************************)
\* line 330: the success line is logged once mail.expunge() has returned
MoveLoggedSuccess == InMove /\ \E k \in At("EXPUNGE") : issued[k].resp # "raise"

C26_SuccessOnlyWhenMoved ==
    (Returned /\ MoveLoggedSuccess) =>
       /\ RespOf("STORE") = {"OK"}
       /\ \A m \in Identified :
             /\ Copies(folders, Mailbox(SourceFolder), m) = {}
             /\ \E t \in TargetBox : Copies(folders, t, m) # {}

(***************************************************************************)
(* C25.  A uid taken from a record that fetch_emails(folder=F) returned    *)
(* and passed to move_email_to_folder makes the move act on that same      *)
(* message, whatever the folder F: the message the COPY of the move takes  *)
(* is the one the record was built from, never another message that has    *)
(* the same uid in another folder.                                         *)
(***************************************************************************)
\* the uid argument of the move is the uid of a record of the fetch before it
UidFromFetch == \E k \in 1..Len(prev.results) : prev.results[k] = args.uid

\* the messages the record of that uid was built from
FetchedMessages == {m \in pre[Mailbox(prev.folder)] : m.uid = args.uid}

C25_MoveActsOnFetchedMessage ==
    (InMove /\ prev # NoPrev /\ UidFromFetch /\ "OK" \in RespOf("COPY")) =>
       {m.id : m \in Identified} = {m.id : m \in FetchedMessages}

(***************************************************************************)
(* C27.  fetch_emails is repeatable: a second call with the same folder    *)
(* and the same search criteria, right after a first one and with nothing  *)
(* failing in either, returns the same sequence of records.                *)
(***************************************************************************)
C27_FetchRepeatable ==
    (op = "fetch_emails" /\ pc = "returned" /\ args # NoArgs /\ FetchClean
       /\ prev # NoPrev /\ prev.folder = args.folder /\ prev.criteria = args.criteria) =>
          results = prev.results
====
